---- MODULE Spec2Model ----
(***************************************************************************)
(* A model of the signup-sequencer core:                                   *)
(*   - TimedReadProgressLock  (src/src/timed_read_progress_lock.rs)        *)
(*   - the insert_identities pipeline                                      *)
(*                       (src/src/task_monitor/tasks/insert_identities.rs) *)
(* Each component has its own specification (LockSpec, PipeSpec); a        *)
(* component's specification leaves the other component's variables alone. *)
(***************************************************************************)
EXTENDS Naturals, Integers, Sequences, FiniteSets, TLC

\* ------------------------------------------------------------------ bounds
NumCallers == 2
NumTasks == 2
NumIdentities == 2
MaxRequests == 3

Callers == 1..NumCallers
Tasks == 1..NumTasks
Identities == 1..NumIdentities
NoTask == 0
MaxCeiling == 2
NumProvers == 2
Ceilings == 0..MaxCeiling
Provers == 1..NumProvers
NoProver == 0
NumValues == 2

\* =========================================================================
\*                     insert_identities: the state
\* =========================================================================
VARIABLES
    chan,        \* the mpsc channel: IdentityInsert requests not yet received
    closed,      \* every Sender of the channel has been dropped
    nextReq,     \* number of requests sent so far, plus one
    signals,     \* per request: what was sent on its on_complete, in order
    tree,        \* latest_tree: the identities at leaves 0, 1, ..
    db,          \* database: the pending records
    rxOwner,     \* the task owning the guard of identity_receiver
    rxQ,         \* FIFO of tasks waiting in identity_receiver.lock()
    tpc,         \* per task: where InsertIdentities::run is
    batch,       \* per task: the requests drained for the current cycle
    deduped,     \* per task: `deduped`, what is left of it to validate
    admitted,    \* per task: `identities` after the store check
    items,       \* per task: what is left of `items` to persist
    notifies,    \* wake_up_notify.notify_one() calls so far
    checked,     \* requests get_identity_leaf_index was called for
    known        \* requests whose identity the store held when drained

pipeVars == <<chan, closed, nextReq, signals, tree, db, rxOwner, rxQ, tpc,
              batch, deduped, admitted, items, notifies, checked, known>>

\* =========================================================================
\*                        TimedReadProgressLock
\* =========================================================================
VARIABLES
    pc,        \* per caller: "idle", or the acquisition call it is inside
    guard,     \* per caller: the ProgressGuard / WriteGuard it owns
    rguards,   \* per caller: number of read() guards it owns (0 or 1)
    token,     \* per caller: owns the MutexGuard of progress_mutex
    mutexQ,    \* FIFO of callers waiting in progress_mutex.lock()
    rwR,       \* per caller: read permits it holds on rw_lock
    rwW,       \* per caller: holds the write permit of rw_lock
    rwQ,       \* FIFO of requests waiting on rw_lock
    result,    \* per caller: how its last acquisition call returned
    via,       \* per caller: the call that produced the guard it owns
    value      \* the protected value T inside rw_lock

lockVars == <<pc, guard, rguards, token, mutexQ, rwR, rwW, rwQ, result, via,
              value>>

\* =========================================================================
\*                          ProverMap: the state
\* =========================================================================
VARIABLES
    map,       \* ProverMap.map: a function from ceilings to provers
    got,       \* the last get(): <<batch_size, result>>, <<>> before any
    gotMax     \* the last max_batch_size(): <<result>>, <<>> before any

mapVars == <<map, got, gotMax>>

RECURSIVE SumOver(_, _)
SumOver(f, S) ==
    IF S = {} THEN 0
    ELSE LET x == CHOOSE y \in S : TRUE IN f[x] + SumOver(f, S \ {x})

Range(s) == {s[i] : i \in 1..Len(s)}

IsWriteOp(op) == op \in {"write", "upgrade"}

\* tokio::sync::RwLock is fair: requests are served first in, first out. A
\* write request at the head is served when nobody holds a permit; read
\* requests at the head are served while no writer holds the lock.
RECURSIVE ReadRun(_)
ReadRun(q) ==
    IF q = <<>> \/ IsWriteOp(Head(q).op) THEN 0 ELSE 1 + ReadRun(Tail(q))

GrantPrefix(q, nReaders, hasWriter) ==
    IF hasWriter \/ q = <<>> THEN 0
    ELSE IF IsWriteOp(Head(q).op) THEN (IF nReaders = 0 THEN 1 ELSE 0)
    ELSE ReadRun(q)

\* Serve the rw_lock queue q from the given intermediate state and return
\* the served calls to their callers with their guards.
Settle(q, pcm, gd, rg, rr, rw, res) ==
    LET k == GrantPrefix(q, SumOver(rr, Callers), \E c \in Callers : rw[c])
        G(c) == \E i \in 1..k : q[i].c = c
        Op(c) == q[CHOOSE i \in 1..k : q[i].c = c].op
    IN  /\ rwQ' = SubSeq(q, k + 1, Len(q))
        /\ pc' = [c \in Callers |-> IF G(c) THEN "idle" ELSE pcm[c]]
        /\ guard' = [c \in Callers |->
                        IF G(c) /\ Op(c) = "progress" THEN "progress"
                        ELSE IF G(c) /\ IsWriteOp(Op(c)) THEN "write"
                        ELSE gd[c]]
        /\ rguards' = [c \in Callers |->
                        IF G(c) /\ Op(c) = "read" THEN rg[c] + 1 ELSE rg[c]]
        /\ rwR' = [c \in Callers |->
                        IF G(c) /\ ~IsWriteOp(Op(c)) THEN rr[c] + 1 ELSE rr[c]]
        /\ rwW' = [c \in Callers |-> rw[c] \/ (G(c) /\ IsWriteOp(Op(c)))]
        /\ result' = [c \in Callers |-> IF G(c) THEN "ok" ELSE res[c]]
        /\ via' = [c \in Callers |->
                        IF G(c) /\ Op(c) # "read" THEN Op(c)
                        ELSE IF gd[c] = "none" THEN "none"
                        ELSE IF gd[c] = "progress" /\ guard[c] = "write"
                             THEN "downgrade"
                        ELSE via[c]]
        /\ UNCHANGED <<value, pipeVars, mapVars>>

\* tokio::sync::Mutex is fair: a released mutex goes to the first waiter.
TokenReleased(c) ==
    IF mutexQ = <<>> THEN [token EXCEPT ![c] = FALSE]
    ELSE [token EXCEPT ![c] = FALSE, ![Head(mutexQ)] = TRUE]

MutexQReleased == IF mutexQ = <<>> THEN <<>> ELSE Tail(mutexQ)

MutexFree == \A d \in Callers : ~token[d]

\* progress_mutex.lock(): taken at once when free, else the caller queues.
LockMutex(c, stage) ==
    /\ pc[c] = "idle"
    /\ IF MutexFree /\ mutexQ = <<>>
       THEN token' = [token EXCEPT ![c] = TRUE] /\ mutexQ' = mutexQ
       ELSE token' = token /\ mutexQ' = Append(mutexQ, c)
    /\ pc' = [pc EXCEPT ![c] = stage]
    /\ result' = [result EXCEPT ![c] = "pending"]
    /\ UNCHANGED <<guard, rguards, rwR, rwW, rwQ, via>>
    /\ UNCHANGED <<value, pipeVars, mapVars>>

LockInit ==
    /\ pc = [c \in Callers |-> "idle"]
    /\ guard = [c \in Callers |-> "none"]
    /\ rguards = [c \in Callers |-> 0]
    /\ token = [c \in Callers |-> FALSE]
    /\ mutexQ = <<>>
    /\ rwR = [c \in Callers |-> 0]
    /\ rwW = [c \in Callers |-> FALSE]
    /\ rwQ = <<>>
    /\ result = [c \in Callers |-> "none"]
    /\ via = [c \in Callers |-> "none"]
    /\ value = 0

\* read(): timeout(duration, rw_lock.read()). A caller keeps one read guard at
\* a time; more readers are more callers.
Read(c) ==
    /\ pc[c] = "idle"
    /\ rguards[c] = 0
    /\ UNCHANGED <<token, mutexQ>>
    /\ Settle(Append(rwQ, [c |-> c, op |-> "read"]),
              [pc EXCEPT ![c] = "read_wait"], guard, rguards, rwR, rwW,
              [result EXCEPT ![c] = "pending"])

ProgressNoMutex(c) ==
    /\ pc[c] = "idle"
    /\ guard[c] = "none"
    /\ UNCHANGED <<token, mutexQ>>
    /\ Settle(Append(rwQ, [c |-> c, op |-> "progress"]),
              [pc EXCEPT ![c] = "prog_rw"], guard, rguards, rwR, rwW,
              [result EXCEPT ![c] = "pending"])

\* progress(): first await, progress_mutex.lock()
Progress(c) == LockMutex(c, "prog_mutex")

\* progress(): second await, rw_lock.read_owned(), once the mutex is owned
ProgressGotMutex(c) ==
    /\ pc[c] = "prog_mutex"
    /\ c \notin Range(mutexQ)
    /\ UNCHANGED <<token, mutexQ>>
    /\ Settle(Append(rwQ, [c |-> c, op |-> "progress"]),
              [pc EXCEPT ![c] = "prog_rw"], guard, rguards, rwR, rwW, result)

WriteNoMutex(c) ==
    /\ pc[c] = "idle"
    /\ guard[c] = "none"
    /\ UNCHANGED <<token, mutexQ>>
    /\ Settle(Append(rwQ, [c |-> c, op |-> "write"]),
              [pc EXCEPT ![c] = "write_rw"], guard, rguards, rwR, rwW,
              [result EXCEPT ![c] = "pending"])

\* write(): first await, progress_mutex.lock()
Write(c) == LockMutex(c, "write_mutex")

WriteGotMutexAsRead(c) ==
    /\ pc[c] = "write_mutex"
    /\ c \notin Range(mutexQ)
    /\ UNCHANGED <<token, mutexQ>>
    /\ LET q == Append(rwQ, [c |-> c, op |-> "progress"])
           k == GrantPrefix(q, SumOver(rwR, Callers), \E d \in Callers : rwW[d])
       IN  /\ k = Len(q)
           /\ rwQ' = <<>>
           /\ pc' = [pc EXCEPT ![c] = "idle"]
           /\ guard' = [guard EXCEPT ![c] = "write"]
           /\ rwW' = [rwW EXCEPT ![c] = TRUE]
           /\ result' = [result EXCEPT ![c] = "ok"]
           /\ via' = [via EXCEPT ![c] = "write"]
           /\ UNCHANGED <<rguards, rwR>>
           /\ UNCHANGED <<value, pipeVars, mapVars>>

\* write(): second await, rw_lock.write_owned(), once the mutex is owned
WriteGotMutex(c) ==
    /\ pc[c] = "write_mutex"
    /\ c \notin Range(mutexQ)
    /\ UNCHANGED <<token, mutexQ>>
    /\ Settle(Append(rwQ, [c |-> c, op |-> "write"]),
              [pc EXCEPT ![c] = "write_rw"], guard, rguards, rwR, rwW, result)

UpgradeDropsToken(c) ==
    /\ pc[c] = "idle"
    /\ guard[c] = "progress"
    /\ token' = TokenReleased(c)
    /\ mutexQ' = MutexQReleased
    /\ Settle(rwQ, [pc EXCEPT ![c] = "upg"],
              [guard EXCEPT ![c] = "none"], rguards,
              [rwR EXCEPT ![c] = @ - 1], rwW,
              [result EXCEPT ![c] = "pending"])

\* upgrade_to_write(), line 132: drop(self.resource_read_guard). The guard is
\* consumed; its mutex_guard moves into the future being awaited.
UpgradeToWrite(c) ==
    /\ pc[c] = "idle"
    /\ guard[c] = "progress"
    /\ UNCHANGED <<token, mutexQ>>
    /\ Settle(rwQ, [pc EXCEPT ![c] = "upg"],
              [guard EXCEPT ![c] = "none"], rguards,
              [rwR EXCEPT ![c] = @ - 1], rwW,
              [result EXCEPT ![c] = "pending"])

\* upgrade_to_write(), line 134: resource_lock.write_owned()
UpgradeRequest(c) ==
    /\ pc[c] = "upg"
    /\ UNCHANGED <<token, mutexQ>>
    /\ Settle(Append(rwQ, [c |-> c, op |-> "upgrade"]),
              [pc EXCEPT ![c] = "upg_rw"], guard, rguards, rwR, rwW, result)

\* downgrade_to_progress(): write_guard.downgrade() turns the write permit
\* into one read permit without releasing the lock in between.
DowngradeToProgress(c) ==
    /\ pc[c] = "idle"
    /\ guard[c] = "write"
    /\ UNCHANGED <<token, mutexQ>>
    /\ Settle(rwQ, pc, [guard EXCEPT ![c] = "progress"], rguards,
              [rwR EXCEPT ![c] = @ + 1], [rwW EXCEPT ![c] = FALSE], result)

\* a guard returned by read() goes out of scope
DropRead(c) ==
    /\ pc[c] = "idle"
    /\ rguards[c] > 0
    /\ UNCHANGED <<token, mutexQ>>
    /\ Settle(rwQ, pc, guard, [rguards EXCEPT ![c] = @ - 1],
              [rwR EXCEPT ![c] = @ - 1], rwW, result)

\* A ProgressGuard or WriteGuard goes out of scope. Fields drop in
\* declaration order: mutex_guard first, the view of the value after it.
DropGuard(c) ==
    /\ pc[c] = "idle"
    /\ guard[c] # "none"
    /\ token' = TokenReleased(c)
    /\ mutexQ' = MutexQReleased
    /\ pc' = [pc EXCEPT ![c] = "drop_view"]
    /\ guard' = [guard EXCEPT ![c] = "none"]
    /\ via' = [via EXCEPT ![c] = "none"]
    /\ UNCHANGED <<rguards, rwR, rwW, rwQ, result>>
    /\ UNCHANGED <<value, pipeVars, mapVars>>

DropView(c) ==
    /\ pc[c] = "drop_view"
    /\ UNCHANGED <<token, mutexQ>>
    /\ Settle(rwQ, [pc EXCEPT ![c] = "idle"], guard, rguards,
              IF rwW[c] THEN rwR ELSE [rwR EXCEPT ![c] = @ - 1],
              [rwW EXCEPT ![c] = FALSE], result)

\* Error { operation, .. }: the Operation each call reports on a timeout
TimeoutError(stage) ==
    IF stage = "read_wait" THEN "timeout_read"
    ELSE IF stage \in {"prog_mutex", "prog_rw"} THEN "timeout_progress"
    ELSE "timeout_write"

WaitsOnMutex(c) == pc[c] \in {"prog_mutex", "write_mutex"} /\ c \in Range(mutexQ)
WaitsOnRw(c) == pc[c] \in {"read_wait", "prog_rw", "write_rw", "upg_rw"}
OwnsMutexInCall(c) == pc[c] \in {"prog_rw", "write_rw", "upg_rw"}

TimeoutKeepsUpgradeToken(c) ==
    /\ WaitsOnMutex(c) \/ WaitsOnRw(c)
    /\ token' = IF pc[c] \in {"prog_rw", "write_rw"} THEN TokenReleased(c)
                ELSE token
    /\ mutexQ' = IF pc[c] \in {"prog_rw", "write_rw"} THEN MutexQReleased
                 ELSE SelectSeq(mutexQ, LAMBDA d : d # c)
    /\ Settle(SelectSeq(rwQ, LAMBDA e : e.c # c),
              [pc EXCEPT ![c] = "idle"], guard, rguards, rwR, rwW,
              [result EXCEPT ![c] = TimeoutError(pc[c])])

TimeoutNotUpgrade(c) ==
    /\ WaitsOnMutex(c) \/ (WaitsOnRw(c) /\ pc[c] # "upg_rw")
    /\ token' = IF OwnsMutexInCall(c) THEN TokenReleased(c) ELSE token
    /\ mutexQ' = IF OwnsMutexInCall(c) THEN MutexQReleased
                 ELSE SelectSeq(mutexQ, LAMBDA d : d # c)
    /\ Settle(SelectSeq(rwQ, LAMBDA e : e.c # c),
              [pc EXCEPT ![c] = "idle"], guard, rguards, rwR, rwW,
              [result EXCEPT ![c] = TimeoutError(pc[c])])

\* timeout(duration, ..) elapses while the call waits: the future is dropped,
\* with the request it had queued and the mutex_guard it had got.
Timeout(c) ==
    /\ WaitsOnMutex(c) \/ WaitsOnRw(c)
    /\ token' = IF OwnsMutexInCall(c) THEN TokenReleased(c) ELSE token
    /\ mutexQ' = IF OwnsMutexInCall(c) THEN MutexQReleased
                 ELSE SelectSeq(mutexQ, LAMBDA d : d # c)
    /\ Settle(SelectSeq(rwQ, LAMBDA e : e.c # c),
              [pc EXCEPT ![c] = "idle"], guard, rguards, rwR, rwW,
              [result EXCEPT ![c] = TimeoutError(pc[c])])

\* DerefMut for WriteGuard, lines 197-204: the owner of a WriteGuard assigns
\* through it; the value is reachable for writing in no other way.
Mutate(c) ==
    /\ pc[c] = "idle"
    /\ guard[c] = "write"
    /\ value' = (value + 1) % NumValues
    /\ UNCHANGED <<pc, guard, rguards, token, mutexQ, rwR, rwW, rwQ, result,
                   via>>
    /\ UNCHANGED <<pipeVars, mapVars>>

LockNext ==
    \E c \in Callers :
        \/ Read(c)
        \/ Progress(c)
        \/ ProgressGotMutex(c)
        \/ Write(c)
        \/ WriteGotMutex(c)
        \/ UpgradeToWrite(c)
        \/ UpgradeRequest(c)
        \/ DowngradeToProgress(c)
        \/ DropRead(c)
        \/ DropGuard(c)
        \/ DropView(c)
        \/ Timeout(c)

\* =========================================================================
\*                          insert_identities
\* =========================================================================
ReqIds == 1..MaxRequests
None == -1

DuplicateCommitment == [kind |-> "DuplicateCommitment"]
Proof(root, proof) ==
    [kind |-> "Proof", status |-> "Pending", root |-> root, proof |-> proof]

\* on_complete.send(msg)
SendOn(sig, id, msg) == [sig EXCEPT ![id] = Append(@, msg)]

RECURSIVE SendAll(_, _, _)
SendAll(sig, reqs, msg) ==
    IF reqs = <<>> THEN sig
    ELSE SendAll(SendOn(sig, Head(reqs).id, msg), Tail(reqs), msg)

\* Database::get_identity_leaf_index: the leaf index recorded for an identity
GetIdentityLeafIndex(store, identity) ==
    IF \E rec \in store : rec.identity = identity
    THEN (CHOOSE rec \in store : rec.identity = identity).leaf_index
    ELSE None

\* Database::get_next_leaf_index: one past the highest recorded leaf index
GetNextLeafIndex(store) ==
    IF store = {} THEN 0
    ELSE (CHOOSE rec \in store :
            \A other \in store : other.leaf_index <= rec.leaf_index).leaf_index + 1

\* Database::insert_pending_identity
InsertPendingIdentity(store, leaf_index, identity, root) ==
    store \cup {[leaf_index |-> leaf_index, identity |-> identity,
                 root |-> root, status |-> "Pending"]}

\* TreeVersion::next_leaf
NextLeaf(t) == Len(t)

\* TreeVersion::append_many: one (root, proof, leaf_index) per identity, in
\* order; a root is written as the leaves it commits to.
AppendMany(t, ids) ==
    [i \in 1..Len(ids) |->
        [root |-> t \o SubSeq(ids, 1, i),
         proof |-> Len(t) + i - 1,
         leaf_index |-> Len(t) + i - 1]]

MinOf(a, b) == IF a <= b THEN a ELSE b

three_way_zip_swapped(a, b, c) ==
    LET n == MinOf(MinOf(Len(a), Len(b)), Len(c)) IN
    [i \in 1..n |-> <<a[i], b[i], c[n + 1 - i]>>]

three_way_zip(a, b, c) ==
    [i \in 1..MinOf(MinOf(Len(a), Len(b)), Len(c)) |-> <<a[i], b[i], c[i]>>]

\* lines 76-90: the loop over `identities` with `commitments_set`
RECURSIVE DedupLoop(_, _, _, _)
DedupLoop(identities, commitments_set, kept, dups) ==
    IF identities = <<>> THEN [deduped |-> kept, dups |-> dups]
    ELSE LET identity == Head(identities) IN
         IF identity.identity \in commitments_set
         THEN DedupLoop(Tail(identities), commitments_set, kept,
                        Append(dups, identity))
         ELSE DedupLoop(Tail(identities),
                        commitments_set \cup {identity.identity},
                        Append(kept, identity), dups)

RECURSIVE DedupAdjacentLoop(_, _, _, _)
DedupAdjacentLoop(identities, last, kept, dups) ==
    IF identities = <<>> THEN [deduped |-> kept, dups |-> dups]
    ELSE LET identity == Head(identities) IN
         IF identity.identity = last
         THEN DedupAdjacentLoop(Tail(identities), last, kept,
                                Append(dups, identity))
         ELSE DedupAdjacentLoop(Tail(identities), identity.identity,
                                Append(kept, identity), dups)

DedupAdjacent(identities) == DedupAdjacentLoop(identities, None, <<>>, <<>>)

Dedup(identities) == DedupLoop(identities, {}, <<>>, <<>>)

PipeInit ==
    /\ chan = <<>>
    /\ closed = FALSE
    /\ nextReq = 1
    /\ signals = [id \in ReqIds |-> <<>>]
    /\ tree = <<>>
    /\ db = {}
    /\ rxOwner = NoTask
    /\ rxQ = <<>>
    /\ tpc = [t \in Tasks |-> "new"]
    /\ batch = [t \in Tasks |-> <<>>]
    /\ deduped = [t \in Tasks |-> <<>>]
    /\ admitted = [t \in Tasks |-> <<>>]
    /\ items = [t \in Tasks |-> <<>>]
    /\ notifies = 0
    /\ checked = {}
    /\ known = {}

\* a producer sends an IdentityInsert on the channel
Send(h) ==
    /\ ~closed
    /\ nextReq <= MaxRequests
    /\ chan' = Append(chan, [id |-> nextReq, identity |-> h])
    /\ nextReq' = nextReq + 1
    /\ UNCHANGED <<closed, signals, tree, db, rxOwner, rxQ, tpc, batch,
                   deduped, admitted, items, notifies, checked, known>>
    /\ UNCHANGED <<lockVars, mapVars>>

\* the last Sender is dropped
Close ==
    /\ ~closed
    /\ closed' = TRUE
    /\ UNCHANGED <<chan, nextReq, signals, tree, db, rxOwner, rxQ, tpc, batch,
                   deduped, admitted, items, notifies, checked, known>>
    /\ UNCHANGED <<lockVars, mapVars>>

RunNoLock(t) ==
    /\ tpc[t] = "new"
    /\ rxOwner' = t
    /\ rxQ' = rxQ
    /\ tpc' = [tpc EXCEPT ![t] = "recv"]
    /\ UNCHANGED <<chan, closed, nextReq, signals, tree, db, batch, deduped,
                   admitted, items, notifies, checked, known>>
    /\ UNCHANGED <<lockVars, mapVars>>

\* run(), line 45: identity_receiver.lock().await
Run(t) ==
    /\ tpc[t] = "new"
    /\ IF rxOwner = NoTask /\ rxQ = <<>>
       THEN /\ rxOwner' = t
            /\ rxQ' = rxQ
            /\ tpc' = [tpc EXCEPT ![t] = "recv"]
       ELSE /\ rxOwner' = rxOwner
            /\ rxQ' = Append(rxQ, t)
            /\ tpc' = [tpc EXCEPT ![t] = "lock_wait"]
    /\ UNCHANGED <<chan, closed, nextReq, signals, tree, db, batch, deduped,
                   admitted, items, notifies, checked, known>>
    /\ UNCHANGED <<lockVars, mapVars>>

\* run() returns or unwinds: the locals of the cycle are dropped and the guard
\* of identity_receiver goes to the first task waiting for it.
Terminate(t, how) ==
    /\ rxOwner' = IF rxQ = <<>> THEN NoTask ELSE Head(rxQ)
    /\ rxQ' = IF rxQ = <<>> THEN <<>> ELSE Tail(rxQ)
    /\ tpc' = IF rxQ = <<>> THEN [tpc EXCEPT ![t] = how]
              ELSE [tpc EXCEPT ![t] = how, ![Head(rxQ)] = "recv"]
    /\ batch' = [batch EXCEPT ![t] = <<>>]
    /\ deduped' = [deduped EXCEPT ![t] = <<>>]
    /\ admitted' = [admitted EXCEPT ![t] = <<>>]
    /\ items' = [items EXCEPT ![t] = <<>>]

\* lines 65-90: recv(), the try_recv() drain and the dedup loop
Recv(t) ==
    /\ tpc[t] = "recv"
    /\ rxOwner = t
    /\ chan # <<>>
    /\ LET d == Dedup(chan) IN
        /\ batch' = [batch EXCEPT ![t] = chan]
        /\ chan' = <<>>
        /\ deduped' = [deduped EXCEPT ![t] = d.deduped]
        /\ admitted' = [admitted EXCEPT ![t] = <<>>]
        /\ signals' = SendAll(signals, d.dups, DuplicateCommitment)
        /\ known' = known \cup
              {chan[i].id : i \in {j \in 1..Len(chan) :
                    GetIdentityLeafIndex(db, chan[j].identity) # None}}
    /\ tpc' = [tpc EXCEPT ![t] = "validate"]
    /\ UNCHANGED <<closed, nextReq, tree, db, rxOwner, rxQ, items, notifies,
                   checked>>
    /\ UNCHANGED <<lockVars, mapVars>>

RecvEmptyReturns(t) ==
    /\ tpc[t] = "recv"
    /\ rxOwner = t
    /\ chan = <<>>
    /\ Terminate(t, "ok")
    /\ UNCHANGED <<chan, closed, nextReq, signals, tree, db, notifies,
                   checked, known>>
    /\ UNCHANGED <<lockVars, mapVars>>

\* lines 65-68: recv() returns None, the loop breaks and run() returns Ok
RecvClosed(t) ==
    /\ tpc[t] = "recv"
    /\ rxOwner = t
    /\ chan = <<>>
    /\ closed
    /\ Terminate(t, "ok")
    /\ UNCHANGED <<chan, closed, nextReq, signals, tree, db, notifies,
                   checked, known>>
    /\ UNCHANGED <<lockVars, mapVars>>

\* lines 94-107: one turn of the loop over `deduped`; `ok` is whether the
\* store answered
Validate(t) ==
    /\ tpc[t] = "validate"
    /\ \E ok \in BOOLEAN :
        LET identity == Head(deduped[t]) IN
        /\ checked' = checked \cup {identity.id}
        /\ IF ~ok
           THEN /\ Terminate(t, "err")
                /\ UNCHANGED signals
           ELSE /\ IF GetIdentityLeafIndex(db, identity.identity) # None
                   THEN /\ signals' = SendOn(signals, identity.id,
                                             DuplicateCommitment)
                        /\ admitted' = admitted
                   ELSE /\ signals' = signals
                        /\ admitted' = [admitted EXCEPT
                                            ![t] = Append(@, identity)]
                /\ deduped' = [deduped EXCEPT ![t] = Tail(@)]
                /\ tpc' = [tpc EXCEPT ![t] =
                              IF Tail(deduped[t]) = <<>> THEN "sync"
                              ELSE "validate"]
                /\ UNCHANGED <<rxOwner, rxQ, batch, items>>
    /\ UNCHANGED <<chan, closed, nextReq, tree, db, notifies, known>>
    /\ UNCHANGED <<lockVars, mapVars>>

SyncNoCheck(t) ==
    /\ tpc[t] = "sync"
    /\ LET identities == [i \in 1..Len(admitted[t]) |-> admitted[t][i].identity]
           on_completes == [i \in 1..Len(admitted[t]) |-> admitted[t][i].id]
           data == AppendMany(tree, identities)
           zipped == three_way_zip(data, identities, on_completes)
       IN /\ tree' = tree \o identities
          /\ items' = [items EXCEPT ![t] = zipped]
          /\ admitted' = [admitted EXCEPT ![t] = <<>>]
          /\ tpc' = [tpc EXCEPT ![t] =
                       IF zipped = <<>> THEN "recv" ELSE "persist"]
          /\ batch' = [batch EXCEPT ![t] = IF zipped = <<>> THEN <<>> ELSE @]
          /\ notifies' = IF zipped = <<>> THEN notifies + 1 ELSE notifies
    /\ UNCHANGED <<rxOwner, rxQ, deduped>>
    /\ UNCHANGED <<chan, closed, nextReq, signals, db, checked, known>>
    /\ UNCHANGED <<lockVars, mapVars>>

\* lines 109-136: get_next_leaf_index(), the sync assertion, append_many and
\* three_way_zip; with nothing to persist the cycle ends here with notify_one
Sync(t) ==
    /\ tpc[t] = "sync"
    /\ \E ok \in BOOLEAN :
        LET next_db_index == GetNextLeafIndex(db)
            next_leaf == NextLeaf(tree)
            identities == [i \in 1..Len(admitted[t]) |-> admitted[t][i].identity]
            on_completes == [i \in 1..Len(admitted[t]) |-> admitted[t][i].id]
            data == AppendMany(tree, identities)
            zipped == three_way_zip(data, identities, on_completes)
        IN
        IF ~ok
        THEN /\ Terminate(t, "err")
             /\ UNCHANGED <<tree, notifies>>
        ELSE IF next_leaf # next_db_index
        THEN /\ Terminate(t, "panic")
             /\ UNCHANGED <<tree, notifies>>
        ELSE /\ tree' = tree \o identities
             /\ IF Len(data) # Len(identities)
                THEN /\ Terminate(t, "panic")
                     /\ UNCHANGED notifies
                ELSE /\ items' = [items EXCEPT ![t] = zipped]
                     /\ admitted' = [admitted EXCEPT ![t] = <<>>]
                     /\ tpc' = [tpc EXCEPT ![t] =
                                  IF zipped = <<>> THEN "recv" ELSE "persist"]
                     /\ batch' = [batch EXCEPT ![t] =
                                  IF zipped = <<>> THEN <<>> ELSE @]
                     /\ notifies' = IF zipped = <<>> THEN notifies + 1
                                    ELSE notifies
                     /\ UNCHANGED <<rxOwner, rxQ, deduped>>
    /\ UNCHANGED <<chan, closed, nextReq, signals, db, checked, known>>
    /\ UNCHANGED <<lockVars, mapVars>>

PersistNotifyEach(t) ==
    /\ tpc[t] = "persist"
    /\ LET item == Head(items[t])
           last == Tail(items[t]) = <<>>
       IN /\ db' = InsertPendingIdentity(db, item[1].leaf_index, item[2],
                                         item[1].root)
          /\ signals' = SendOn(signals, item[3],
                               Proof(item[1].root, item[1].proof))
          /\ items' = [items EXCEPT ![t] = Tail(@)]
          /\ tpc' = [tpc EXCEPT ![t] = IF last THEN "recv" ELSE "persist"]
          /\ batch' = [batch EXCEPT ![t] = IF last THEN <<>> ELSE @]
          /\ notifies' = notifies + 1
    /\ UNCHANGED <<rxOwner, rxQ, deduped, admitted>>
    /\ UNCHANGED <<chan, closed, nextReq, tree, checked, known>>
    /\ UNCHANGED <<lockVars, mapVars>>

PersistSendFirst(t) ==
    /\ tpc[t] = "persist"
    /\ \E ok \in BOOLEAN :
        LET item == Head(items[t])
            last == Tail(items[t]) = <<>>
        IN
        /\ signals' = SendOn(signals, item[3],
                             Proof(item[1].root, item[1].proof))
        /\ IF ~ok
           THEN /\ Terminate(t, "err")
                /\ UNCHANGED <<db, notifies>>
           ELSE /\ db' = InsertPendingIdentity(db, item[1].leaf_index,
                                               item[2], item[1].root)
                /\ items' = [items EXCEPT ![t] = Tail(@)]
                /\ tpc' = [tpc EXCEPT ![t] =
                             IF last THEN "recv" ELSE "persist"]
                /\ batch' = [batch EXCEPT ![t] = IF last THEN <<>> ELSE @]
                /\ notifies' = IF last THEN notifies + 1 ELSE notifies
                /\ UNCHANGED <<rxOwner, rxQ, deduped, admitted>>
    /\ UNCHANGED <<chan, closed, nextReq, tree, checked, known>>
    /\ UNCHANGED <<lockVars, mapVars>>

\* lines 138-158: one turn of the loop over `items`; after the last one,
\* notify_one and the next cycle
Persist(t) ==
    /\ tpc[t] = "persist"
    /\ \E ok \in BOOLEAN :
        LET item == Head(items[t])
            root == item[1].root
            proof == item[1].proof
            leaf_index == item[1].leaf_index
            identity == item[2]
            on_complete == item[3]
            last == Tail(items[t]) = <<>>
        IN
        IF ~ok
        THEN /\ Terminate(t, "err")
             /\ UNCHANGED <<db, signals, notifies>>
        ELSE /\ db' = InsertPendingIdentity(db, leaf_index, identity, root)
             /\ signals' = SendOn(signals, on_complete, Proof(root, proof))
             /\ items' = [items EXCEPT ![t] = Tail(@)]
             /\ tpc' = [tpc EXCEPT ![t] = IF last THEN "recv" ELSE "persist"]
             /\ batch' = [batch EXCEPT ![t] = IF last THEN <<>> ELSE @]
             /\ notifies' = IF last THEN notifies + 1 ELSE notifies
             /\ UNCHANGED <<rxOwner, rxQ, deduped, admitted>>
    /\ UNCHANGED <<chan, closed, nextReq, tree, checked, known>>
    /\ UNCHANGED <<lockVars, mapVars>>

PipeNext ==
    \/ \E h \in Identities : Send(h)
    \/ Close
    \/ \E t \in Tasks :
        \/ Run(t)
        \/ Recv(t)
        \/ RecvClosed(t)
        \/ Validate(t)
        \/ Sync(t)
        \/ Persist(t)

\* =========================================================================
\*                               ProverMap
\* =========================================================================
\* iteration of a BTreeMap: its keys in ascending order
RECURSIVE BTreeIter(_)
BTreeIter(keys) ==
    IF keys = {} THEN <<>>
    ELSE LET lo == CHOOSE k \in keys : \A j \in keys : k <= j
         IN <<lo>> \o BTreeIter(keys \ {lo})

RECURSIVE GetStrictFrom(_, _, _)
GetStrictFrom(m, batch_size, sizes) ==
    IF sizes = <<>> THEN NoProver
    ELSE IF batch_size < Head(sizes) THEN m[Head(sizes)]
    ELSE GetStrictFrom(m, batch_size, Tail(sizes))

\* lines 27-33: the for loop of get() over what is left of the iteration
RECURSIVE GetFrom(_, _, _)
GetFrom(m, batch_size, sizes) ==
    IF sizes = <<>> THEN NoProver
    ELSE IF batch_size <= Head(sizes) THEN m[Head(sizes)]
    ELSE GetFrom(m, batch_size, Tail(sizes))

\* ProverMap::get, lines 26-34
get(m, batch_size) == GetFrom(m, batch_size, BTreeIter(DOMAIN m))

max_batch_size_first(m) ==
    LET sizes == BTreeIter(DOMAIN m)
    IN IF sizes = <<>> THEN 0 ELSE sizes[1]

\* ProverMap::max_batch_size, lines 50-52: iter().next_back().map_or(0, ..)
max_batch_size(m) ==
    LET sizes == BTreeIter(DOMAIN m)
    IN IF sizes = <<>> THEN 0 ELSE sizes[Len(sizes)]

\* make_insertion_map, line 102: BTreeMap::new(); its inserts are Add steps
MapInit ==
    /\ map = <<>>
    /\ got = <<>>
    /\ gotMax = <<>>

\* ProverMap::add, lines 37-39: BTreeMap::insert replaces an existing entry
Add(batch_size, prover) ==
    /\ map' = [k \in DOMAIN map \cup {batch_size} |->
                 IF k = batch_size THEN prover ELSE map[k]]
    /\ UNCHANGED <<got, gotMax>>
    /\ UNCHANGED <<lockVars, pipeVars>>

\* ProverMap::remove, lines 42-44
Remove(batch_size) ==
    /\ map' = [k \in DOMAIN map \ {batch_size} |-> map[k]]
    /\ UNCHANGED <<got, gotMax>>
    /\ UNCHANGED <<lockVars, pipeVars>>

\* a call of get(batch_size)
Get(batch_size) ==
    /\ got' = <<batch_size, get(map, batch_size)>>
    /\ UNCHANGED <<map, gotMax>>
    /\ UNCHANGED <<lockVars, pipeVars>>

\* a call of max_batch_size()
MaxBatchSize ==
    /\ gotMax' = <<max_batch_size(map)>>
    /\ UNCHANGED <<map, got>>
    /\ UNCHANGED <<lockVars, pipeVars>>

MapNext ==
    \/ \E batch_size \in Ceilings, prover \in Provers : Add(batch_size, prover)
    \/ \E batch_size \in Ceilings : Remove(batch_size)
    \/ \E batch_size \in 0..(MaxCeiling + 1) : Get(batch_size)
    \/ MaxBatchSize

vars == <<lockVars, pipeVars, mapVars>>
Init == LockInit /\ PipeInit /\ MapInit
MapSpec == Init /\ [][MapNext]_vars
LockSpec == Init /\ [][LockNext]_vars
LockValueNext == LockNext \/ \E c \in Callers : Mutate(c)
LockValueSpec == Init /\ [][LockValueNext]_vars
PipeSpec == Init /\ [][PipeNext]_vars

\* The timer of timeout() fires and the runtime polls a woken call: a call
\* that can take its next step or time out is not left waiting forever.
\* Callers are free never to call and never to drop a guard.
LockLiveSpec ==
    /\ Init
    /\ [][LockNext]_vars
    /\ \A c \in Callers :
          WF_vars(ProgressGotMutex(c) \/ WriteGotMutex(c)
                    \/ UpgradeRequest(c) \/ Timeout(c))

LockTypeOK ==
    /\ pc \in [Callers -> {"idle", "read_wait", "prog_mutex", "prog_rw",
                           "write_mutex", "write_rw", "upg", "upg_rw",
                           "drop_view"}]
    /\ guard \in [Callers -> {"none", "progress", "write"}]
    /\ rguards \in [Callers -> {0, 1}]
    /\ \A c \in Callers : rwR[c] \in {0, 1, 2}

\* =========================================================================
\*                               Claims
\* =========================================================================

InUpgrade(c) == pc[c] \in {"upg", "upg_rw"}

\* C1: at most one caller at a time owns the progress token, and every
\* ProgressGuard, WriteGuard and upgrade in flight belongs to that caller, so
\* no second progress()/write() succeeds while the first guard exists.
C1_ProgressTokenExclusive ==
    /\ Cardinality({c \in Callers : token[c]}) <= 1
    /\ \A c \in Callers : (guard[c] # "none" \/ InUpgrade(c)) => token[c]
    /\ Cardinality({c \in Callers : guard[c] # "none" \/ InUpgrade(c)}) <= 1

\* an upgrade is in flight while another caller waits for the token
C1_Witness ==
    \E c, d \in Callers :
        /\ pc[c] = "upg_rw" /\ token[c]
        /\ pc[d] = "write_mutex" /\ d \in Range(mutexQ)

\* C2: while a WriteGuard is held nobody holds a read guard or the read view
\* of a ProgressGuard.
C2_WriteExcludesReaders ==
    \A c \in Callers :
        guard[c] = "write" =>
            /\ rwW[c]
            /\ \A d \in Callers :
                  rwR[d] = 0 /\ rguards[d] = 0 /\ guard[d] # "progress"

\* a WriteGuard got by an upgrade is held while a read() waits
C2_Witness ==
    \E c, d \in Callers :
        guard[c] = "write" /\ via[c] = "upgrade" /\ pc[d] = "read_wait"

\* C3: while a ProgressGuard is held no read() is waiting (so none can time
\* out), no writer holds or waits for the value, and read guards coexist.
C3_ProgressAdmitsReaders ==
    (\E c \in Callers : guard[c] = "progress") =>
        /\ \A d \in Callers : pc[d] # "read_wait" /\ ~rwW[d]
        /\ rwQ = <<>>

\* one caller holds a ProgressGuard and every other caller a read guard
C3_Witness ==
    \E c \in Callers :
        /\ guard[c] = "progress"
        /\ \A d \in Callers \ {c} : rguards[d] > 0 /\ result[d] = "ok"

\* what a caller that has just got a ProgressGuard from progress() holds
FreshProgress(c) ==
    /\ token[c]
    /\ guard[c] = "progress"
    /\ pc[c] = "idle"
    /\ rwR[c] = rguards[c] + 1
    /\ \A d \in Callers : ~rwW[d]
    /\ rwQ = <<>>
    /\ \A d \in Callers \ {c} : ~token[d] /\ guard[d] = "none"

\* C4: from progress() through upgrade_to_write() and downgrade_to_progress()
\* the caller owns the token at every step and no other caller gets it; the
\* guard a downgrade returns is in the state of one progress() returns.
C4_TokenKeptThroughUpgradeDowngrade ==
    [][\A c \in Callers :
          /\ (guard[c] = "none" /\ guard'[c] = "progress") => FreshProgress(c)'
          /\ (guard[c] = "progress" /\ guard'[c] # "progress" /\ pc'[c] # "drop_view")
                => (token[c] /\ token'[c] /\ (InUpgrade(c)' \/ guard'[c] = "write"))
          /\ (InUpgrade(c) /\ (InUpgrade(c)' \/ guard'[c] = "write"))
                => (token[c] /\ token'[c]
                    /\ \A d \in Callers \ {c} : ~token'[d] /\ guard'[d] = "none")
          /\ (guard[c] = "write" /\ guard'[c] = "progress")
                => (token[c] /\ FreshProgress(c)')
      ]_vars

\* a caller is back at Progress after an upgrade and a downgrade while
\* another caller has been waiting for the token
C4_Witness ==
    \E c, d \in Callers :
        /\ guard[c] = "progress" /\ via[c] = "downgrade"
        /\ d \in Range(mutexQ)

\* C5 as stated: a WriteGuard only ever comes from upgrade_to_write().
C5_WriteOnlyByUpgrade ==
    \A c \in Callers : guard[c] = "write" => via[c] = "upgrade"

\* C5 as amended: a caller reaches Write only while owning the progress token,
\* either by upgrade_to_write() of its ProgressGuard or by write(), which
\* takes the token itself and never holds a ProgressGuard.
C5_WriteOnlyWithToken ==
    [][\A c \in Callers :
          (guard[c] # "write" /\ guard'[c] = "write") =>
              /\ token[c] /\ token'[c]
              /\ \/ InUpgrade(c) /\ via'[c] = "upgrade"
                 \/ pc[c] \in {"write_mutex", "write_rw"} /\ via'[c] = "write"
      ]_vars

\* a WriteGuard obtained by write()
C5_Witness ==
    \E c \in Callers : guard[c] = "write" /\ via[c] = "write" /\ token[c]

InAcquisition(c) ==
    pc[c] \in {"read_wait", "prog_mutex", "prog_rw", "write_mutex",
               "write_rw", "upg", "upg_rw"}

\* C6: every read(), progress(), write() and upgrade_to_write() returns,
\* with its guard or with a timeout, whatever the other callers do.
C6_AcquisitionsReturn ==
    \A c \in Callers : InAcquisition(c) ~> (pc[c] = "idle")

\* a caller holding a read guard has called write() and got a timeout, and
\* an upgrade has timed out against a reader
C6_Witness ==
    \E c \in Callers :
        /\ pc[c] = "idle" /\ rguards[c] > 0
        /\ result[c] = "timeout_write" /\ guard[c] = "none"

\* ------------------------------------------------------------- pipeline

\* the request has been received from the channel
Drained(id) == id < nextReq /\ \A i \in 1..Len(chan) : chan[i].id # id

\* the request belongs to a cycle that is still running
InCycle(id) ==
    \E t \in Tasks : \E i \in 1..Len(batch[t]) : batch[t][i].id = id

\* C7: every request received gets exactly one completion signal, on every
\* path of the cycle, the store-error paths included.
C7_ExactlyOneSignal ==
    \A id \in ReqIds : (Drained(id) /\ ~InCycle(id)) => Len(signals[id]) = 1

FirstOccurrence(b, i) == \A j \in 1..(i - 1) : b[j].identity # b[i].identity

\* C8: in a drained batch every request after the first with its identity is
\* completed as DuplicateCommitment and never reaches the store check; the
\* first ones, one per distinct identity and in arrival order, are what goes
\* to the store check.
C8_IntraBatchDedup ==
    \A t \in Tasks :
        LET b == batch[t]
            d == deduped[t]
        IN
        /\ \A i \in 1..Len(b) :
              ~FirstOccurrence(b, i) =>
                  /\ signals[b[i].id] = <<DuplicateCommitment>>
                  /\ b[i].id \notin checked
                  /\ \A u \in Tasks : b[i] \notin Range(d) \cup Range(admitted[u])
        /\ tpc[t] = "validate" =>
              /\ \A i \in 1..Len(b) :
                    FirstOccurrence(b, i) <=>
                        (b[i] \in Range(d) \/ b[i].id \in checked)
              /\ \A p, q \in 1..Len(d) :
                    p < q => (d[p].id < d[q].id /\ d[p].identity # d[q].identity)
              /\ Cardinality({b[i].id : i \in {j \in 1..Len(b) :
                        b[j] \in Range(d) \/ b[j].id \in checked}})
                   = Cardinality({b[i].identity : i \in 1..Len(b)})

\* a batch a, b, a has been drained: the third request is the duplicate
C8_Witness ==
    \E t \in Tasks :
        /\ tpc[t] = "validate"
        /\ Len(batch[t]) = 3
        /\ batch[t][1].identity = batch[t][3].identity
        /\ batch[t][1].identity # batch[t][2].identity
        /\ Len(deduped[t]) = 2
        /\ signals[batch[t][3].id] = <<DuplicateCommitment>>

\* C9: a request for an identity the store already holds resolves to
\* DuplicateCommitment and its identity is never appended to the tree again.
C9_StoredIdentityIsDuplicate ==
    \A id \in known :
        /\ (~InCycle(id)) => signals[id] = <<DuplicateCommitment>>
        /\ \A t \in Tasks :
              /\ \A i \in 1..Len(admitted[t]) : admitted[t][i].id # id
              /\ \A i \in 1..Len(items[t]) : items[t][i][3] # id
        /\ \A i, j \in 1..Len(tree) : tree[i] = tree[j] => i = j

\* C10: tree and store agree on the next free leaf index in every cycle that
\* starts, whichever run() instance starts it.
C10_TreeStoreInSync ==
    \A t \in Tasks :
        tpc[t] \in {"validate", "sync"} =>
            NextLeaf(tree) = GetNextLeafIndex(db)

Mismatch == NextLeaf(tree) # GetNextLeafIndex(db)

\* C11: when tree and store disagree at the consistency check the cycle ends
\* there, by a panic (or by the store error of get_next_leaf_index itself),
\* with tree, store, completion signals and notification count untouched; a
\* panic happens nowhere else.
C11_MismatchAbortsBeforeAppend ==
    [][\A t \in Tasks :
          /\ (tpc[t] = "sync" /\ Mismatch /\ tpc'[t] # "sync") =>
                /\ tpc'[t] \in {"panic", "err"}
                /\ tree' = tree /\ db' = db
                /\ signals' = signals /\ notifies' = notifies
          /\ (tpc[t] # "panic" /\ tpc'[t] = "panic") =>
                /\ tpc[t] = "sync" /\ Mismatch
                /\ tree' = tree /\ db' = db
                /\ signals' = signals /\ notifies' = notifies
      ]_vars

\* a task has died on the assertion with the tree ahead of the store
C11_Witness ==
    \E t \in Tasks : tpc[t] = "panic" /\ Mismatch /\ Len(tree) > 0

IdentityIn(b, id) == b[CHOOSE i \in 1..Len(b) : b[i].id = id].identity

HasProof(id) == signals[id] # <<>> /\ signals[id][1].kind = "Proof"

\* C12: the admitted requests keep their drained order; the i-th of them is
\* paired with the i-th result of append_many (its own identity, the leaf it
\* was appended at, the root after it); records and Proofs go out in that
\* order, so what is delivered always precedes what is still to deliver.
C12_OrderPreserved ==
    \A t \in Tasks :
        LET b == batch[t]
            it == items[t]
            ad == admitted[t]
        IN
        /\ \A p, q \in 1..Len(ad) : p < q => ad[p].id < ad[q].id
        /\ tpc[t] = "persist" =>
            /\ it # <<>>
            /\ it[Len(it)][1].leaf_index = Len(tree) - 1
            /\ \A k \in 1..Len(it) :
                  /\ \E i \in 1..Len(b) : b[i].id = it[k][3]
                  /\ IdentityIn(b, it[k][3]) = it[k][2]
                  /\ tree[it[k][1].leaf_index + 1] = it[k][2]
                  /\ it[k][1].root = SubSeq(tree, 1, it[k][1].leaf_index + 1)
                  /\ it[k][1].proof = it[k][1].leaf_index
                  /\ k < Len(it) =>
                        /\ it[k][3] < it[k + 1][3]
                        /\ it[k][1].leaf_index + 1 = it[k + 1][1].leaf_index
            /\ \A i \in 1..Len(b) :
                  HasProof(b[i].id) =>
                      /\ b[i].id < it[1][3]
                      /\ signals[b[i].id][1].proof < it[1][1].leaf_index
                      /\ \E rec \in db :
                            /\ rec.leaf_index = signals[b[i].id][1].proof
                            /\ rec.identity = b[i].identity
            /\ \A i, j \in 1..Len(b) :
                  (i < j /\ HasProof(b[i].id) /\ HasProof(b[j].id)) =>
                      signals[b[i].id][1].proof < signals[b[j].id][1].proof

\* of a batch of three with one duplicate, the first admitted request has its
\* Proof and the second is still to persist
C12_Witness ==
    \E t \in Tasks :
        /\ tpc[t] = "persist"
        /\ Len(batch[t]) = 3
        /\ Len(items[t]) = 1
        /\ \E i \in 1..3 : HasProof(batch[t][i].id)
        /\ \E i \in 1..3 : signals[batch[t][i].id] = <<DuplicateCommitment>>

Active(t) == tpc[t] \in {"recv", "validate", "sync", "persist"}

\* C13: at most one run() is past identity_receiver.lock() at a time and it
\* owns the receiver; the others wait in its queue; a cycle only begins with
\* nothing of the previous one left to append or to persist.
C13_OnePassAtATime ==
    /\ Cardinality({t \in Tasks : Active(t)}) <= 1
    /\ \A t \in Tasks :
          /\ Active(t) => rxOwner = t
          /\ tpc[t] = "lock_wait" =>
                (t \in Range(rxQ) /\ rxOwner \notin {NoTask, t})
          /\ (tpc[t] = "recv" \/ ~Active(t)) =>
                (batch[t] = <<>> /\ deduped[t] = <<>>
                 /\ admitted[t] = <<>> /\ items[t] = <<>>)

\* one task is persisting a batch while another waits for the receiver
C13_Witness ==
    \E t, u \in Tasks : tpc[t] = "persist" /\ tpc[u] = "lock_wait"

Terminated(t) == tpc[t] \in {"ok", "err", "panic"}

\* C14 as stated: the loop terminates only when the channel is closed.
C14_TerminatesOnlyOnClose ==
    \A t \in Tasks : Terminated(t) => closed

\* C14 as amended: the loop returns Ok only from recv() on a closed channel
\* with every request sent drained and its cycle over; it otherwise ends only
\* with a store error or on the assertion; on an open, empty channel it waits.
C14_TerminationCauses ==
    [][\A t \in Tasks :
          /\ (~Terminated(t) /\ tpc'[t] = "ok") =>
                /\ tpc[t] = "recv" /\ closed /\ chan = <<>>
                /\ \A id \in ReqIds :
                      id < nextReq => (Drained(id) /\ ~InCycle(id))
          /\ (~Terminated(t) /\ tpc'[t] = "err") =>
                tpc[t] \in {"validate", "sync", "persist"}
          /\ (~Terminated(t) /\ tpc'[t] = "panic") => tpc[t] = "sync"
          /\ (tpc[t] = "recv" /\ chan = <<>> /\ ~closed) => tpc'[t] = "recv"
      ]_vars

\* a task has returned Ok after a request was completed
C14_Witness ==
    \E t \in Tasks :
        /\ tpc[t] = "ok"
        /\ \E id \in ReqIds : Len(signals[id]) = 1

CycleEnds(t) == tpc[t] \in {"sync", "persist"} /\ tpc'[t] = "recv"

\* C15: notify_one is called once by the step that completes a cycle, when
\* every request of the batch has its signal and nothing is left to persist,
\* and by no other step; a cycle ending in Err or a panic calls it never.
C15_NotifyOncePerCycle ==
    [][/\ \A t \in Tasks :
            /\ CycleEnds(t) =>
                  /\ notifies' = notifies + 1
                  /\ items'[t] = <<>>
                  /\ \A i \in 1..Len(batch[t]) :
                        Len(signals'[batch[t][i].id]) = 1
            /\ (~Terminated(t) /\ Terminated(t)') => notifies' = notifies
       /\ notifies' # notifies => \E t \in Tasks : CycleEnds(t)
      ]_vars

\* one cycle has completed and a later one has ended with an error
C15_Witness ==
    notifies = 1 /\ \E t \in Tasks : tpc[t] = "err"

\* C20: every Proof sent has its pending record in the store, with the leaf
\* index, identity and root of that request.
C20_ProofOnlyAfterPersist ==
    \A id \in ReqIds :
        \A k \in 1..Len(signals[id]) :
            signals[id][k].kind = "Proof" =>
                \E rec \in db :
                    /\ rec.leaf_index = signals[id][k].proof
                    /\ rec.root = signals[id][k].root
                    /\ rec.identity = rec.root[Len(rec.root)]
                    /\ \A t \in Tasks : \A i \in 1..Len(batch[t]) :
                          batch[t][i].id = id =>
                              rec.identity = batch[t][i].identity

\* a batch of two was appended, the first request persisted and sent its
\* Proof, the store write of the second failed: it has no signal
C20_Witness ==
    \E id1, id2 \in ReqIds :
        /\ HasProof(id1)
        /\ Drained(id2) /\ ~InCycle(id2) /\ signals[id2] = <<>>
        /\ Len(tree) = 2 /\ Cardinality(db) = 1
        /\ \E t \in Tasks : tpc[t] = "err"

\* ------------------------------- ProverMap -------------------------------
CeilingsAtLeast(n) == {k \in DOMAIN map : k >= n}

SmallestCeilingAtLeast(n) ==
    CHOOSE k \in CeilingsAtLeast(n) : \A j \in CeilingsAtLeast(n) : k <= j

\* C16: whatever add and remove have made of the registry, get(batch_size) is
\* the prover under the smallest ceiling >= batch_size, and none exactly when
\* there is no such ceiling; a get() just made returned that.
C16_GetSmallestSufficient ==
    /\ \A n \in 0..(MaxCeiling + 1) :
          /\ CeilingsAtLeast(n) = {} <=> get(map, n) = NoProver
          /\ CeilingsAtLeast(n) # {} =>
                get(map, n) = map[SmallestCeilingAtLeast(n)]
    /\ map = <<>> => \A n \in 0..(MaxCeiling + 1) : get(map, n) = NoProver

\* with a smaller and a larger ceiling registered, a get() in between has
\* returned the prover of the larger one, which is not the smaller one's
C16_Witness ==
    /\ got # <<>>
    /\ \E lo, hi \in DOMAIN map :
          /\ lo < got[1] /\ got[1] < hi
          /\ map[lo] # map[hi]
          /\ got[2] = map[hi]
          /\ get(map, got[1]) = got[2]

\* C17: max_batch_size() is the largest registered ceiling, 0 on an empty
\* registry, and get(n) is none for every n above it.
C17_MaxBatchSize ==
    /\ map = <<>> => max_batch_size(map) = 0
    /\ map # <<>> =>
          /\ max_batch_size(map) \in DOMAIN map
          /\ \A k \in DOMAIN map : k <= max_batch_size(map)
    /\ \A n \in 0..(MaxCeiling + 1) :
          n > max_batch_size(map) => get(map, n) = NoProver

\* after adds and a remove, max_batch_size() has returned the larger of two
\* registered ceilings and a get() above it has returned none
C17_Witness ==
    /\ gotMax # <<>> /\ got # <<>>
    /\ Cardinality(DOMAIN map) = 2
    /\ MaxCeiling \notin DOMAIN map
    /\ gotMax[1] = max_batch_size(map)
    /\ gotMax[1] > 0
    /\ got[1] > gotMax[1] /\ got[2] = NoProver

\* ------------------------- the protected value ---------------------------
\* C18: the value changes only in a step of a caller that owns a WriteGuard
\* with its write permit, and then no caller owns a ProgressGuard or is inside
\* upgrade_to_write(): what a ProgressGuard showed stays the value until the
\* guard is dropped, upgrade included.
C18_ProgressSnapshotStable ==
    [][value' # value =>
          /\ \E c \in Callers :
                guard[c] = "write" /\ rwW[c] /\ token[c] /\ pc[c] = "idle"
          /\ \A d \in Callers : guard[d] # "progress" /\ ~InUpgrade(d)
          /\ \A d \in Callers : rwR[d] = 0
      ]_vars

\* the value has been changed and a caller that took progress() afterwards
\* has upgraded to the WriteGuard it now owns
C18_Witness ==
    /\ value # 0
    /\ \E c \in Callers : guard[c] = "write" /\ via[c] = "upgrade"

\* ------------------------------- timeouts --------------------------------
TimedOut(c) == result[c] \in {"timeout_progress", "timeout_write"}

\* C19 as stated: once progress(), write() or upgrade_to_write() has timed
\* out, the caller holds neither the token nor any read or write view.
C19_TimeoutHoldsNothing ==
    \A c \in Callers :
        (TimedOut(c) /\ pc[c] = "idle") =>
            (~token[c] /\ rwR[c] = 0 /\ ~rwW[c])

\* a caller holds the token, the permits and no more than belong to the
\* guards it owns, and has no request queued
HoldsOnlyItsGuards(c) ==
    /\ token[c] <=> guard[c] # "none"
    /\ rwW[c] <=> guard[c] = "write"
    /\ rwR[c] = rguards[c] + (IF guard[c] = "progress" THEN 1 ELSE 0)
    /\ c \notin Range(mutexQ)
    /\ \A i \in 1..Len(rwQ) : rwQ[i].c # c

\* C19 as amended: a timed-out progress(), write() or upgrade_to_write()
\* leaves its caller with nothing of that call, only with the guards it owned
\* apart from it; the upgrade gives back the token it came with; the token is
\* then free or with a caller that owns a guard or is inside its own timed
\* call, so later calls can succeed.
C19_TimeoutReleasesCall ==
    [][\A c \in Callers :
          /\ (TimedOut(c) /\ pc[c] = "idle") => HoldsOnlyItsGuards(c)
          /\ (InAcquisition(c) /\ pc[c] # "read_wait"
              /\ ~InAcquisition(c)' /\ result'[c] # "ok") =>
                /\ TimedOut(c)' /\ pc'[c] = "idle"
                /\ HoldsOnlyItsGuards(c)'
                /\ guard'[c] = guard[c] /\ rguards'[c] = rguards[c]
                /\ InUpgrade(c) => (token[c] /\ ~token'[c] /\ rwR'[c] = rguards[c])
                /\ pc[c] \in {"prog_rw", "write_rw"} => (token[c] /\ ~token'[c])
                /\ \A d \in Callers :
                      token'[d] =>
                          (guard'[d] # "none" \/ InAcquisition(d)')
      ]_vars

\* a write()/upgrade_to_write() of one caller has timed out, it holds
\* nothing, and the other caller owns a WriteGuard
C19_Witness ==
    \E c, d \in Callers :
        /\ result[c] = "timeout_write" /\ pc[c] = "idle"
        /\ guard[c] = "none" /\ HoldsOnlyItsGuards(c)
        /\ guard[d] = "write" /\ result[d] = "ok" /\ pc[d] = "idle"
====
